---- MODULE Spec2Model ----
(***************************************************************************)
(* Model of c7n_huaweicloud/resources/kms.py: the five actions registered  *)
(* on the huaweicloud.kms resource (enable_key_rotation,                   *)
(* disable_key_rotation, enable_key, disable_key, create-key).             *)
(*                                                                         *)
(* The program side is one action per handler (perform_action / process).  *)
(* The environment is the KMS client: every SDK call either returns a      *)
(* response or raises one of Exceptions; the account is the list of keys   *)
(* the service holds, of which list_keys returns at most `limit` entries.  *)
(*                                                                         *)
(* Python values of different types are kept apart by their record field:  *)
(* [int |-> 0] is the integer 0, [str |-> "0"] the string "0", so that     *)
(* `resource["keystore_id"] != 0` is Python's comparison, not TLA+'s.      *)
(***************************************************************************)
EXTENDS Integers, Sequences, FiniteSets, TLC

VARIABLES
    resources,  \* the key resources the policy run hands to perform_action
    account,    \* the keys the KMS service holds for the account
    nuuid,      \* how many uuid.uuid4() values have been drawn so far
    nruns,      \* how many times create-key's process has run
    seqsSent,   \* the `sequence` of every request sent so far that carries one
    last        \* the most recent invocation of an action: what it was given,
                \* the requests it sent, what the client answered, how it ended

vars == <<resources, account, nuuid, nruns, seqsSent, last>>

----------------------------------------------------------------------------
(* Bounds of the model *)

MaxUuid == 2        \* uuid4 values drawn in one behaviour
MaxRuns == 1        \* runs of create-key's process in one behaviour
MaxAliases == 2     \* length of the policy parameter key_aliases
MaxExisting == 1    \* named keys the account holds initially

(* Program constant: limit="1000" of the one ListKeysRequest; the request
   body carries the string, the service reads it as this number *)
Limit == 1000

----------------------------------------------------------------------------
(* Python values *)

PyInt(n) == [int |-> n]
PyStr(s) == [str |-> s]
PyNone == [none |-> TRUE]

\* v != n for a Python value v and an int literal n: values of another type
\* are never equal to an int
PyNeInt(v, n) == ~("int" \in DOMAIN v /\ v.int = n)

\* dict.get(k, default)
DictGet(d, k, default) == IF k \in DOMAIN d THEN d[k] ELSE default

Range(s) == {s[i] : i \in 1..Len(s)}

Min(a, b) == IF a < b THEN a ELSE b
Max(a, b) == IF a > b THEN a ELSE b

----------------------------------------------------------------------------
(* Inputs: the key resource dictionaries handed to perform_action *)

UnsupportedSpecs ==
    {"RSA_2048", "RSA_3072", "RSA_4096", "EC_P256", "EC_P384",
     "SM2", "ML_DSA_44", "ML_DSA_65", "ML_DSA_87"}
KeySpecs == UnsupportedSpecs \cup {"AES_256", "SM4"}
DefaultKeyFlags == {"0", "1"}
KeystoreIds == {PyInt(0), PyInt(1), PyStr("0")}
KeyStates == {"1", "2", "3", "4", "5"}
KeyIds == {"k1", "k2"}

Resources ==
    [key_id : KeyIds, default_key_flag : DefaultKeyFlags, key_spec : KeySpecs,
     keystore_id : KeystoreIds, key_state : KeyStates]

(* Inputs: the policy data of a create-key action *)
Aliases == {"a", "b", "default"}

RECURSIVE SeqsUpTo(_, _)
SeqsUpTo(S, n) ==
    IF n = 0 THEN {<<>>}
    ELSE LET shorter == SeqsUpTo(S, n - 1)
         IN shorter \cup {Append(s, x) : s \in {t \in shorter : Len(t) = n - 1}, x \in S}

AliasLists == SeqsUpTo(Aliases, MaxAliases)

Datas ==
    {[type |-> "create-key"], [type |-> "create-key", obs_url |-> ""]}
    \cup {[type |-> "create-key", key_aliases |-> l] : l \in AliasLists}

(* The resource list of one mixed policy run: a key for each way through
   the rotation gate's spec and state checks, under both key ids *)
PolicyResources ==
    {r \in Resources : /\ r.default_key_flag = "0"
                       /\ r.keystore_id = PyInt(0)
                       /\ r.key_spec \in {"AES_256", "RSA_2048"}
                       /\ r.key_state \in {"2", "5"}}

----------------------------------------------------------------------------
(* The KMS client (huaweicloudsdkkms) and the service behind it *)

Exceptions == {"ClientRequestException", "ConnectionError"}

\* what the service does with one call: answer it, or raise
SdkOutcomes == {"ok"} \cup Exceptions

\* the account: `filler` keys whose aliases no policy names, followed by the
\* named keys in list order; a created key is appended.  The service may
\* accept a create_key for an alias it already holds, or raise.
Account(filler, named) == [filler |-> filler, named |-> named]
EmptyAccount == Account(0, <<>>)

ExistingAliases == {"a", "b"}
Accounts ==
    {Account(f, n) : f \in {0, Limit - 1, Limit},
                     n \in SeqsUpTo(ExistingAliases, MaxExisting)}

\* list_keys: the first body.limit keys of the account, fillers first
ListKeys(acct, body) ==
    LET room == Max(0, body.limit - acct.filler)
        shown == SubSeq(acct.named, 1, Min(Len(acct.named), room))
    IN [nfiller |-> Min(acct.filler, body.limit),
        key_details |-> [i \in 1..Len(shown) |-> [key_alias |-> shown[i]]]]

\* the responses of the other calls
KeyInfo(request) == [api |-> request.api, key_id |-> request.body.key_id]
CreatedKey(request) == [api |-> request.api, key_alias |-> request.body.key_alias]

\* one client call for a key operation under outcome o
ClientCall(request, o) ==
    IF o = "ok" THEN [ok |-> KeyInfo(request)] ELSE [exc |-> o]

----------------------------------------------------------------------------
(* Request objects *)

\* uuid.uuid4().hex: the n-th value drawn differs from every earlier one
uuid4hex(n) == n + 1

OperateKeyRequestBody(key_id, sequence) == [key_id |-> key_id, sequence |-> sequence]
ListKeysRequestBody(key_spec, limit) == [key_spec |-> key_spec, limit |-> limit]
CreateKeyRequestBody(key_alias) == [key_alias |-> key_alias]

Request(api, body) == [api |-> api, body |-> body]

\* the `sequence` values carried by a list of requests, in order
RECURSIVE SeqsOf(_)
SeqsOf(requests) ==
    IF requests = <<>> THEN <<>>
    ELSE LET rest == SeqsOf(Tail(requests))
         IN IF "sequence" \in DOMAIN Head(requests).body
            THEN <<Head(requests).body.sequence>> \o rest
            ELSE rest

----------------------------------------------------------------------------
(* How an invocation ends, and the record kept of it *)

Return(value) == [kind |-> "return", value |-> value]
Raise(exc) == [kind |-> "raise", exc |-> exc]

\* faulty variant: the exception is translated on its way out
TryCall_translated(result) ==
    IF "exc" \in DOMAIN result THEN [kind |-> "raise", exc |-> "PolicyExecutionError"]
    ELSE [kind |-> "return", value |-> [resp |-> result.ok]]

\* try: response = client.op(request) / except Exception as e: raise e /
\* return response
TryCall(result) ==
    IF "exc" \in DOMAIN result THEN Raise(result.exc)
    ELSE Return([resp |-> result.ok])

NoResource == [none |-> TRUE]
NoData == [none |-> TRUE]

Call(action, resource, data, before, requests, results, outcome) ==
    [action |-> action, resource |-> resource, data |-> data, before |-> before,
     requests |-> requests, results |-> results, outcome |-> outcome]

NoCall == Call("none", NoResource, NoData, EmptyAccount, <<>>, <<>>, [kind |-> "none"])

----------------------------------------------------------------------------
(* enable_key_rotation: rotationKey.perform_action *)

\* faulty variant: the list as it was before the ML-DSA key specs were added
rotationKey_notSupportList_short ==
    {"RSA_2048", "RSA_3072", "RSA_4096", "EC_P256", "EC_P384", "SM2"}

rotationKey_notSupportList ==
    {"RSA_2048", "RSA_3072", "RSA_4096", "EC_P256", "EC_P384",
     "SM2", "ML_DSA_44", "ML_DSA_65", "ML_DSA_87"}

\* TRUE when none of the four early returns is taken
rotationKey_gate(resource) ==
    IF resource.default_key_flag = "1" THEN FALSE
    ELSE IF resource.key_spec \in rotationKey_notSupportList THEN FALSE
    ELSE IF PyNeInt(resource.keystore_id, 0) THEN FALSE
    ELSE IF resource.key_state \notin {"2", "3", "4"} THEN FALSE
    ELSE TRUE

rotationKey_call(resource, acct, n, o) ==
    IF ~rotationKey_gate(resource)
    THEN Call("enable_key_rotation", resource, NoData, acct, <<>>, <<>>, Return(PyInt(0)))
    ELSE LET request == Request("enable_key_rotation",
                                OperateKeyRequestBody(resource.key_id, uuid4hex(n)))
             result == ClientCall(request, o)
         IN Call("enable_key_rotation", resource, NoData, acct,
                 <<request>>, <<result>>, TryCall(result))

----------------------------------------------------------------------------
(* disable_key_rotation: disableRotationKey.perform_action *)

disableRotationKey_notSupportList ==
    {"RSA_2048", "RSA_3072", "RSA_4096", "EC_P256",
     "EC_P384", "SM2", "ML_DSA_44",
     "ML_DSA_65", "ML_DSA_87"}

\* faulty variant: the copy of the gate drifts: keys pending deletion are skipped
disableRotationKey_gate_drift(resource) ==
    IF resource.default_key_flag = "1" THEN FALSE
    ELSE IF resource.key_spec \in disableRotationKey_notSupportList THEN FALSE
    ELSE IF PyNeInt(resource.keystore_id, 0) THEN FALSE
    ELSE IF resource.key_state \notin {"2", "3"} THEN FALSE
    ELSE TRUE

disableRotationKey_gate(resource) ==
    IF resource.default_key_flag = "1" THEN FALSE
    ELSE IF resource.key_spec \in disableRotationKey_notSupportList THEN FALSE
    ELSE IF PyNeInt(resource.keystore_id, 0) THEN FALSE
    ELSE IF resource.key_state \notin {"2", "3", "4"} THEN FALSE
    ELSE TRUE

disableRotationKey_call(resource, acct, n, o) ==
    IF ~disableRotationKey_gate(resource)
    THEN Call("disable_key_rotation", resource, NoData, acct, <<>>, <<>>, Return(PyInt(0)))
    ELSE LET request == Request("disable_key_rotation",
                                OperateKeyRequestBody(resource.key_id, uuid4hex(n)))
             result == ClientCall(request, o)
         IN Call("disable_key_rotation", resource, NoData, acct,
                 <<request>>, <<result>>, TryCall(result))

----------------------------------------------------------------------------
(* enable_key: enableKey.perform_action; disable_key: disableKey.perform_action *)

\* faulty variant: a failed call is retried once
enableKey_call_retry(resource, acct, n, o) ==
    LET request == Request("enable_key",
                           OperateKeyRequestBody(resource.key_id, uuid4hex(n)))
        again == Request("enable_key",
                         OperateKeyRequestBody(resource.key_id, uuid4hex(n + 1)))
        result == ClientCall(request, o)
    IN IF o = "ok"
       THEN Call("enable_key", resource, NoData, acct, <<request>>, <<result>>,
                 TryCall(result))
       ELSE Call("enable_key", resource, NoData, acct, <<request, again>>,
                 <<result, ClientCall(again, "ok")>>, TryCall(ClientCall(again, "ok")))

\* faulty variant: the rotation gate is pasted in front of the call
enableKey_call_gated(resource, acct, n, o) ==
    IF ~rotationKey_gate(resource)
    THEN Call("enable_key", resource, NoData, acct, <<>>, <<>>, Return(PyInt(0)))
    ELSE LET request == Request("enable_key",
                                OperateKeyRequestBody(resource.key_id, uuid4hex(n)))
             result == ClientCall(request, o)
         IN Call("enable_key", resource, NoData, acct, <<request>>, <<result>>,
                 TryCall(result))

enableKey_call(resource, acct, n, o) ==
    LET request == Request("enable_key",
                           OperateKeyRequestBody(resource.key_id, uuid4hex(n)))
        result == ClientCall(request, o)
    IN Call("enable_key", resource, NoData, acct, <<request>>, <<result>>, TryCall(result))

\* faulty variant: the sequence is drawn once, not per request
disableKey_call_stale(resource, acct, n, o) ==
    LET request == Request("disable_key",
                           OperateKeyRequestBody(resource.key_id, uuid4hex(0)))
        result == ClientCall(request, o)
    IN Call("disable_key", resource, NoData, acct, <<request>>, <<result>>, TryCall(result))

disableKey_call(resource, acct, n, o) ==
    LET request == Request("disable_key",
                           OperateKeyRequestBody(resource.key_id, uuid4hex(n)))
        result == ClientCall(request, o)
    IN Call("disable_key", resource, NoData, acct, <<request>>, <<result>>, TryCall(result))

----------------------------------------------------------------------------
(* create-key: createKey.process *)

\* faulty variant: arr starts empty
createKey_arr_empty(listKeyResponse) ==
    {listKeyResponse.key_details[i].key_alias :
        i \in 1..Len(listKeyResponse.key_details)}

\* arr = {"default"}; for data in listKeyResponse.key_details: arr.add(data.key_alias)
createKey_arr(listKeyResponse) ==
    {"default"} \cup {listKeyResponse.key_details[i].key_alias :
                        i \in 1..Len(listKeyResponse.key_details)}

\* faulty variant: the exception is noted and the loop goes on
RECURSIVE createKey_loop_goes_on(_, _, _, _, _, _)
createKey_loop_goes_on(key_aliases, arr, i, st, failAt, exc) ==
    IF i > Len(key_aliases) THEN st
    ELSE LET alias == key_aliases[i]
         IN IF alias \notin arr
            THEN LET request == Request("create_key", CreateKeyRequestBody(alias))
                     k == Len(st.requests)
                 IN IF k = failAt
                    THEN createKey_loop_goes_on(key_aliases, arr, i + 1,
                                        [requests |-> Append(st.requests, request),
                                         results |-> Append(st.results, [exc |-> exc]),
                                         outcome |-> Raise(exc)],
                                        failAt, exc)
                    ELSE createKey_loop_goes_on(key_aliases, arr, i + 1,
                                        [requests |-> Append(st.requests, request),
                                         results |-> Append(st.results,
                                                            [ok |-> CreatedKey(request)]),
                                         outcome |-> st.outcome],
                                        failAt, exc)
            ELSE createKey_loop_goes_on(key_aliases, arr, i + 1, st, failAt, exc)

\* for alias in key_aliases: from the i-th alias on. st holds the requests sent
\* and their results so far; the failAt-th create_key call raises exc, which
\* leaves the loop and the method
RECURSIVE createKey_loop(_, _, _, _, _, _)
createKey_loop(key_aliases, arr, i, st, failAt, exc) ==
    IF i > Len(key_aliases) THEN st
    ELSE LET alias == key_aliases[i]
         IN IF alias \notin arr
            THEN LET request == Request("create_key", CreateKeyRequestBody(alias))
                     k == Len(st.requests)   \* create_key calls so far, plus the list call
                 IN IF k = failAt
                    THEN [requests |-> Append(st.requests, request),
                          results |-> Append(st.results, [exc |-> exc]),
                          outcome |-> Raise(exc)]
                    ELSE createKey_loop(key_aliases, arr, i + 1,
                                        [requests |-> Append(st.requests, request),
                                         results |-> Append(st.results,
                                                            [ok |-> CreatedKey(request)]),
                                         outcome |-> st.outcome],
                                        failAt, exc)
            ELSE createKey_loop(key_aliases, arr, i + 1, st, failAt, exc)

\* failAt = 0: the list_keys call raises exc; failAt = k > 0: the k-th
\* create_key call raises exc, if the run makes that many
createKey_call(data, acct, failAt, exc) ==
    LET key_aliases == DictGet(data, "key_aliases", <<>>)
        request == Request("list_keys", ListKeysRequestBody("ALL", Limit))
    IN IF failAt = 0
       THEN Call("create-key", NoResource, data, acct,
                 <<request>>, <<[exc |-> exc]>>, Raise(exc))
       ELSE LET listKeyResponse == ListKeys(acct, request.body)
                arr == createKey_arr(listKeyResponse)
                run == createKey_loop(key_aliases, arr, 1,
                                      [requests |-> <<request>>,
                                       results |-> <<[ok |-> listKeyResponse]>>,
                                       outcome |-> Return(PyNone)],
                                      failAt, exc)
            IN Call("create-key", NoResource, data, acct,
                    run.requests, run.results, run.outcome)

\* the aliases of the keys the service created during a call
RECURSIVE CreatedBy(_, _)
CreatedBy(requests, results) ==
    IF requests = <<>> THEN <<>>
    ELSE LET rest == CreatedBy(Tail(requests), Tail(results))
         IN IF Head(requests).api = "create_key" /\ "ok" \in DOMAIN Head(results)
            THEN <<Head(requests).body.key_alias>> \o rest
            ELSE rest

----------------------------------------------------------------------------
(* The state machine *)

\* before the first invocation of a run
Start ==
    /\ nuuid = 0
    /\ nruns = 0
    /\ seqsSent = <<>>
    /\ last = NoCall

\* a policy run with all five actions over the resource list PolicyResources,
\* on an account that holds none of the named keys
Init ==
    /\ resources = PolicyResources
    /\ account = EmptyAccount
    /\ Start

\* the per-key actions run on one key resource, for every key resource
InitKey ==
    /\ resources \in {{r} : r \in Resources}
    /\ account = EmptyAccount
    /\ Start

\* create-key alone, for every initial account; process ignores its argument
InitCreate ==
    /\ resources = {}
    /\ account \in Accounts
    /\ Start

\* the effect of a finished invocation on the state
Finish(call) ==
    /\ last' = call
    /\ nuuid' = nuuid + Len(SeqsOf(call.requests))
    /\ seqsSent' = seqsSent \o SeqsOf(call.requests)
    /\ account' = [account EXCEPT !.named = @ \o CreatedBy(call.requests, call.results)]
    /\ UNCHANGED resources

rotationKey_perform_action(resource, o) ==
    /\ nuuid < MaxUuid
    /\ \E call \in {rotationKey_call(resource, account, nuuid, o)} : Finish(call)
    /\ UNCHANGED nruns

disableRotationKey_perform_action(resource, o) ==
    /\ nuuid < MaxUuid
    /\ \E call \in {disableRotationKey_call(resource, account, nuuid, o)} : Finish(call)
    /\ UNCHANGED nruns

enableKey_perform_action(resource, o) ==
    /\ nuuid < MaxUuid
    /\ \E call \in {enableKey_call(resource, account, nuuid, o)} : Finish(call)
    /\ UNCHANGED nruns

disableKey_perform_action(resource, o) ==
    /\ nuuid < MaxUuid
    /\ \E call \in {disableKey_call(resource, account, nuuid, o)} : Finish(call)
    /\ UNCHANGED nruns

createKey_process(data, failAt, exc) ==
    /\ nruns < MaxRuns
    /\ \E call \in {createKey_call(data, account, failAt, exc)} : Finish(call)
    /\ nruns' = nruns + 1

EnableKeyRotation == \E r \in resources, o \in SdkOutcomes : rotationKey_perform_action(r, o)
DisableKeyRotation ==
    \E r \in resources, o \in SdkOutcomes : disableRotationKey_perform_action(r, o)
EnableKey == \E r \in resources, o \in SdkOutcomes : enableKey_perform_action(r, o)
DisableKey == \E r \in resources, o \in SdkOutcomes : disableKey_perform_action(r, o)
CreateKey ==
    \E d \in Datas, failAt \in 0..(MaxAliases + 1), exc \in Exceptions :
        createKey_process(d, failAt, exc)

Next ==
    \/ EnableKeyRotation
    \/ DisableKeyRotation
    \/ EnableKey
    \/ DisableKey
    \/ CreateKey

Spec == Init /\ [][Next]_vars

NextKey ==
    \/ EnableKeyRotation
    \/ DisableKeyRotation
    \/ EnableKey
    \/ DisableKey

SpecKey == InitKey /\ [][NextKey]_vars

NextCreate == CreateKey

SpecCreate == InitCreate /\ [][NextCreate]_vars

----------------------------------------------------------------------------
(* Vocabulary of the properties *)

KeyActions == {"enable_key_rotation", "disable_key_rotation", "enable_key", "disable_key"}

\* the last invocation skipped its resource: returned 0 and sent nothing
Skipped(call) == call.requests = <<>> /\ call.outcome = Return(PyInt(0))

\* the last invocation sent exactly one request, of this api, for its resource's key
SentOne(call, api) ==
    /\ Len(call.requests) = 1
    /\ call.requests[1].api = api
    /\ call.requests[1].body.key_id = call.resource.key_id

\* some SDK call of the invocation raised
SdkRaised(call) == \E i \in 1..Len(call.results) : "exc" \in DOMAIN call.results[i]

Distinct(s) == \A i, j \in 1..Len(s) : i # j => s[i] # s[j]

\* the aliases of the create_key requests of a create-key run, in order
CreateAliases(call) ==
    [i \in 1..(Len(call.requests) - 1) |-> call.requests[i + 1].body.key_alias]

\* the aliases of the keys in the list response of a create-key run
ListedAliases(call) ==
    {call.results[1].ok.key_details[i].key_alias :
        i \in 1..Len(call.results[1].ok.key_details)}

\* the entries of key_aliases a run is to create, by the claim's words
ToCreate(call) ==
    LET key_aliases == IF "key_aliases" \in DOMAIN call.data
                       THEN call.data.key_aliases ELSE <<>>
        listed == ListedAliases(call)
        New(a) == a # "default" /\ a \notin listed
    IN SelectSeq(key_aliases, New)

----------------------------------------------------------------------------
(* C1: enable_key_rotation sends exactly one EnableKeyRotation request, and
   returns the client's response to it, exactly for the resources with
   default_key_flag other than "1", a key_spec outside the nine unsupported
   specs, keystore_id equal to 0 and key_state among "2", "3", "4"; every
   other resource gets 0 back and no request.  (What happens when the client
   raises is C4.) *)
C1_EnableRotationGate ==
    last.action = "enable_key_rotation" =>
        LET r == last.resource
            eligible ==
                /\ r.default_key_flag # "1"
                /\ r.key_spec \notin {"RSA_2048", "RSA_3072", "RSA_4096", "EC_P256",
                                      "EC_P384", "SM2", "ML_DSA_44", "ML_DSA_65",
                                      "ML_DSA_87"}
                /\ r.keystore_id = PyInt(0)
                /\ r.key_state \in {"2", "3", "4"}
        IN IF eligible
           THEN /\ SentOne(last, "enable_key_rotation")
                /\ ~SdkRaised(last) => last.outcome = Return([resp |-> last.results[1].ok])
           ELSE Skipped(last)

C1_Witness ==
    /\ last.action = "enable_key_rotation"
    /\ last.resource.key_spec = "SM4"
    /\ last.resource.key_state = "4"
    /\ Len(last.requests) = 1
    /\ last.outcome.kind = "return"

(* C2: enable_key_rotation and disable_key_rotation apply the same gate: on
   the resource of the invocation just made, the other rotation action
   skips exactly when this one skipped, and otherwise each sends its one
   request for the resource's key_id. *)
C2_SameGate ==
    /\ last.action = "enable_key_rotation" =>
         \A o \in SdkOutcomes :
            LET other == disableRotationKey_call(last.resource, account, nuuid, o)
            IN \/ Skipped(last) /\ Skipped(other)
               \/ SentOne(last, "enable_key_rotation")
                    /\ SentOne(other, "disable_key_rotation")
    /\ last.action = "disable_key_rotation" =>
         \A o \in SdkOutcomes :
            LET other == rotationKey_call(last.resource, account, nuuid, o)
            IN \/ Skipped(last) /\ Skipped(other)
               \/ SentOne(last, "disable_key_rotation")
                    /\ SentOne(other, "enable_key_rotation")

C2_Witness ==
    /\ last.action = "disable_key_rotation"
    /\ last.resource.key_state = "4"
    /\ SentOne(last, "disable_key_rotation")

(* C3, as claimed: no invocation of any of the five actions sends more than
   one request to the KMS client. *)
C3_AtMostOneRequest == Len(last.requests) <= 1

(* C3, amended: an invocation of one of the four per-key actions sends at
   most one request; a run of create-key sends one list_keys request and
   then one create_key request per alias it creates, at most
   1 + len(key_aliases) requests in all. *)
C3_RequestsPerInvocation ==
    /\ last.action \in KeyActions => Len(last.requests) <= 1
    /\ last.action = "create-key" =>
         /\ Len(last.requests) >= 1
         /\ last.requests[1].api = "list_keys"
         /\ \A i \in 2..Len(last.requests) : last.requests[i].api = "create_key"
         /\ Len(last.requests) <= 1 + Len(DictGet(last.data, "key_aliases", <<>>))

C3_Witness ==
    /\ last.action = "create-key"
    /\ Len(last.requests) = 3

(* C4: when the client raises during one of the four per-key actions, the
   action ends by raising that same exception: one request was sent, none
   after it, and nothing is returned. *)
C4_RaisedUnchanged ==
    (last.action \in KeyActions /\ SdkRaised(last)) =>
        /\ Len(last.requests) = 1
        /\ Len(last.results) = 1
        /\ last.outcome = [kind |-> "raise", exc |-> last.results[1].exc]

C4_Witness ==
    /\ last.action = "disable_key"
    /\ last.results = <<[exc |-> "ConnectionError"]>>
    /\ last.outcome.kind = "raise"

(* C5, as claimed: every request any of the five actions sends carries a
   sequence and the key_id of the resource the action was invoked on, and
   no two requests sent share a sequence. *)
C5_EveryRequestSequenced ==
    /\ \A i \in 1..Len(last.requests) :
          /\ "sequence" \in DOMAIN last.requests[i].body
          /\ "key_id" \in DOMAIN last.requests[i].body
          /\ last.requests[i].body.key_id = last.resource.key_id
    /\ Distinct(seqsSent)

(* C5, amended: every request the four per-key actions send carries a
   sequence and the key_id of the resource the action was invoked on, and
   no two requests sent share a sequence; the list_keys and create_key
   requests of create-key carry neither a sequence nor a key_id. *)
C5_KeyRequestsSequenced ==
    /\ last.action \in KeyActions =>
         \A i \in 1..Len(last.requests) :
            /\ "sequence" \in DOMAIN last.requests[i].body
            /\ last.requests[i].body.key_id = last.resource.key_id
    /\ last.action = "create-key" =>
         \A i \in 1..Len(last.requests) :
            /\ "sequence" \notin DOMAIN last.requests[i].body
            /\ "key_id" \notin DOMAIN last.requests[i].body
    /\ Distinct(seqsSent)

C5_Witness ==
    /\ last.action = "disable_key"
    /\ Len(seqsSent) = 2
    /\ last.requests[1].body.sequence = seqsSent[2]

(* C6: a run of create-key in which no SDK call fails sends one list_keys
   request and then a create_key request for exactly the entries of
   key_aliases that are neither "default" nor the alias of a listed key, in
   the order of key_aliases; without key_aliases, or with an empty one, it
   sends the list request alone. *)
C6_CreatesMissingAliases ==
    (last.action = "create-key" /\ ~SdkRaised(last)) =>
        /\ Len(last.requests) >= 1
        /\ last.requests[1] = [api |-> "list_keys",
                               body |-> [key_spec |-> "ALL", limit |-> 1000]]
        /\ \A i \in 2..Len(last.requests) : last.requests[i].api = "create_key"
        /\ CreateAliases(last) = ToCreate(last)
        /\ ("key_aliases" \notin DOMAIN last.data \/ last.data.key_aliases = <<>>)
              => Len(last.requests) = 1
        /\ last.outcome = Return(PyNone)

C6_Witness ==
    /\ last.action = "create-key"
    /\ ~SdkRaised(last)
    /\ DictGet(last.data, "key_aliases", <<>>) = <<"a", "b">>
    /\ ListedAliases(last) = {"a"}
    /\ CreateAliases(last) = <<"b">>

(* C7: when create_key raises for an alias, the run ends by raising that
   exception; the requests sent are the list request and the create
   requests up to the failing one, which is the last (none for a later
   alias, no second try), and the keys created before it are in the
   account. *)
C7_FailureStopsRun ==
    (last.action = "create-key" /\ SdkRaised(last) /\ Len(last.requests) >= 2) =>
        LET n == Len(last.requests)
            sent == CreateAliases(last)
        IN /\ "exc" \in DOMAIN last.results[n]
           /\ \A i \in 1..(n - 1) : "ok" \in DOMAIN last.results[i]
           /\ last.outcome = [kind |-> "raise", exc |-> last.results[n].exc]
           /\ sent = SubSeq(ToCreate(last), 1, n - 1)
           /\ account.named = last.before.named \o SubSeq(sent, 1, n - 2)

C7_Witness ==
    /\ last.action = "create-key"
    /\ Len(last.requests) = 3
    /\ "exc" \in DOMAIN last.results[3]
    /\ Len(account.named) = Len(last.before.named) + 1

(* C8: create-key sends no create_key request for an alias that a key of
   the account already has, however many keys the account holds. *)
C8_NoExistingAliasCreated ==
    last.action = "create-key" =>
        \A i \in 2..Len(last.requests) :
            last.requests[i].body.key_alias \notin Range(last.before.named)

(* C9: within one run of create-key no alias appears in two create_key
   requests. *)
C9_OneCreatePerAlias ==
    last.action = "create-key" => Distinct(CreateAliases(last))

(* C10, as claimed: enable_key and disable_key send no request for a
   resource that enable_key_rotation would skip. *)
C10_KeyActionsGated ==
    (last.action \in {"enable_key", "disable_key"}
        /\ \A o \in SdkOutcomes : Skipped(rotationKey_call(last.resource, account, nuuid, o)))
    => last.requests = <<>>

(* C10, amended: enable_key and disable_key apply no eligibility check: for
   every resource, those enable_key_rotation skips included, each sends
   exactly one request (EnableKey, respectively DisableKey) for the
   resource's key_id. *)
C10_KeyActionsUngated ==
    /\ last.action = "enable_key" => SentOne(last, "enable_key")
    /\ last.action = "disable_key" => SentOne(last, "disable_key")

C10_Witness ==
    /\ last.action = "enable_key"
    /\ last.resource.default_key_flag = "1"
    /\ \A o \in SdkOutcomes : Skipped(rotationKey_call(last.resource, account, nuuid, o))
    /\ SentOne(last, "enable_key")

====
